---- MODULE Spec2Model ----
(***************************************************************************)
(* A model of aletheap/wordle_player:                                      *)
(*   - WordleGame   (src/src/libwordle/game.py): the authoritative game,   *)
(*     with its constructor,                                               *)
(*   - WordlePlayer (src/src/libwordle/player.py): the solver, made of a   *)
(*     constraint tracker (chars, in_word), a candidate filter and the     *)
(*     solver's own hint function used in self-play, and the selector      *)
(*     next_word with its letter-count scores,                             *)
(*   - the hint computations of both and of the older solver in            *)
(*     src/wordle_player.py, as pure functions,                            *)
(*   - the batch driver main() of player.py: a pool of workers that plays  *)
(*     one game per puzzle, polled until every game is ready.              *)
(* A word is a sequence of one-character strings; a hint is a sequence of  *)
(* the symbols "G", "Y", "B" (and " " for a slot the game never filled).   *)
(***************************************************************************)
EXTENDS Integers, Sequences, FiniteSets, TLC

VARIABLES
    \* ---- WordleGame (game.py) ----
    solution,         \* self._solution
    valid_words,      \* self.valid_words
    max_guesses,      \* self.max_guesses
    guesses,          \* self.guesses
    all_hints,        \* self.all_hints
    won,              \* self.won
    is_finished,      \* self.is_finished
    keyboard_colors,  \* self.keyboard_colors
    raised,           \* how the last call of WordleGame.guess ended
    init_args,        \* the solution, wordle_number and random_word arguments
                      \* of the constructor
    wordle_number,    \* self.wordle_number
    init_raised,      \* how the constructor ended, "no call" before it runs
    \* ---- WordlePlayer (player.py) ----
    p_solution,       \* self._solution
    chars,            \* self.chars: per position [no |-> set, yes |-> letter or None]
    in_word,          \* self.in_word
    color_lines,      \* self.color_lines
    won_game,         \* self.won_game
    num_guesses,      \* self.num_guesses
    last_word,        \* the word argument of the last add_result call, <<>> before
    last_result,      \* the result argument of the last add_result call, <<>> before
    p_raised,         \* how the last call of add_result / guess / next_word ended
    filtered_words,   \* self.filtered_words
    p_returned,       \* what the last call of next_word returned: a word, <<>> for None
                      \* and before the first call
    seen_green,       \* per position, the letters add_result was given a "G" for
    seen_present,     \* the letters add_result was given a "G" or a "Y" for
    \* ---- the hint functions, applied to one (guess, solution) pair ----
    h_word,
    h_solution,
    h_game,           \* the hints WordleGame.guess computes, <<>> before
    h_player,         \* the result WordlePlayer.guess computes, <<>> before
    h_top,            \* the result WordlePlayer.guess of src/wordle_player.py
                      \* computes, <<>> before
    \* ---- the batch driver main() and the games of its pool ----
    main_pc,          \* where main() stands
    async_results,    \* r: one AsyncResult per apply_async call made so far
    games,            \* per dispatched puzzle, the worker's call of play_game
    scan_pos,         \* the index the scan "for x in r" reads next
    new_finished,     \* the ready handles the current scan has counted
    finished,         \* finished
    results,          \* results, <<>> before the list is built
    results_q,        \* the manager queue the games put their records on
    results_json      \* what json.dump wrote to results.json, <<>> before

gvars == <<solution, valid_words, max_guesses, guesses, all_hints, won,
           is_finished, keyboard_colors, raised, init_args, wordle_number,
           init_raised>>
pvars == <<p_solution, chars, in_word, color_lines, won_game, num_guesses,
           last_word, last_result, p_raised, filtered_words, p_returned,
           seen_green, seen_present>>
hvars == <<h_word, h_solution, h_game, h_player, h_top>>
bvars == <<main_pc, async_results, games, scan_pos, new_finished, finished,
           results, results_q, results_json>>
vars  == <<gvars, pvars, hvars, bvars>>

None == "None"

(***************************************************************************)
(* Generic helpers.                                                        *)
(***************************************************************************)
Range(s) == {s[i] : i \in 1..Len(s)}

\* the number of positions of s holding x
Count(s, x) == Cardinality({i \in 1..Len(s) : s[i] = x})

\* python: ["G"] * n
Repeat(x, n) == [i \in 1..n |-> x]

(***************************************************************************)
(* Letters and words.                                                      *)
(***************************************************************************)
ascii_lowercase ==
    {"a","b","c","d","e","f","g","h","i","j","k","l","m",
     "n","o","p","q","r","s","t","u","v","w","x","y","z"}

\* str.lower(), on the characters the model feeds it
lower_char(c) ==
    CASE c = "T" -> "t"
      [] c = "R" -> "r"
      [] c = "A" -> "a"
      [] c = "C" -> "c"
      [] c = "E" -> "e"
      [] OTHER   -> c

lower(word) == [i \in 1..Len(word) |-> lower_char(word[i])]

\* str.strip(): leading and trailing blanks removed
RECURSIVE lstrip(_)
lstrip(word) ==
    IF word # <<>> /\ Head(word) = " " THEN lstrip(Tail(word)) ELSE word

RECURSIVE rstrip(_)
rstrip(word) ==
    IF word # <<>> /\ word[Len(word)] = " "
    THEN rstrip(SubSeq(word, 1, Len(word) - 1))
    ELSE word

strip(word) == rstrip(lstrip(word))

(***************************************************************************)
(* WordleGame (src/src/libwordle/game.py).                                 *)
(***************************************************************************)
wordlen == 5
default_max_guesses == 6

trace  == <<"t","r","a","c","e">>
crane  == <<"c","r","a","n","e">>
abide  == <<"a","b","i","d","e">>
ace    == <<"a","c","e">>
traced == <<"t","r","a","c","e","d">>
zebra  == <<"z","e","b","r","a">>

\* the solutions a modelled game is constructed with
GameSolutions == {trace, abide}

\* the valid_words argument of the constructor: the code takes the set as it
\* is given, so it may hold words that are shorter or longer than wordlen
GameValidWords == {trace, crane, abide, ace, traced}

\* what a caller may pass to guess(): valid and invalid words, raw input
\* with capitals and surrounding blanks
GuessInputs ==
    GameValidWords
    \cup {zebra, <<"T","R","A","C","E">>, <<" ","c","r","a","n","e"," ">>}

\* wordle_number = None, as an argument and as the class attribute
NoNumber == -1

\* WordleGame(solution=..., valid_words=..., max_guesses=...) has returned
InitGameState ==
    /\ solution \in GameSolutions
    /\ valid_words = GameValidWords
    /\ max_guesses \in 1..default_max_guesses
    /\ won = FALSE
    /\ is_finished = FALSE
    /\ guesses = <<>>
    /\ all_hints = <<>>
    /\ keyboard_colors = [c \in ascii_lowercase |-> "white"]
    /\ raised = "no call"
    /\ init_args = [solution |-> solution, wordle_number |-> NoNumber,
                    random_word |-> FALSE]
    /\ wordle_number = NoNumber
    /\ init_raised = "returned"

\* self.solutions: index n + 1 holds the puzzle of wordle_number n
game_solutions == <<trace, abide>>

\* the keys of the word_freqs argument, which np.random.choice draws from
game_word_freqs == {trace, crane}

\* (datetime.date.today() - first_wordle_date).days, on the days the model
\* constructs a game: two that have a puzzle and one past the end of the list
TodayNumbers == {0, 1, 2}

\* the arguments the model passes for solution (<<>> for None), wordle_number
\* and random_word
InitArgs ==
    [solution : {<<>>} \cup GameSolutions,
     wordle_number : {NoNumber, 0, 1},
     random_word : BOOLEAN]

\* the truth value python gives a solution and a wordle_number argument
solution_truth(sol) == sol # <<>>

number_truth(n) == n # NoNumber /\ n # 0

\* the three assertions at the head of __init__: TRUE when one of them fails
init_asserts_fail(args) ==
    \/ solution_truth(args.solution) /\ number_truth(args.wordle_number)
    \/ solution_truth(args.solution) /\ args.random_word
    \/ number_truth(args.wordle_number) /\ args.random_word

\* the whole of __init__ on the arguments init_args: the assertions, the
\* random draw, the puzzle of the day or of the number, the fields of a new
\* game. An exception leaves no object.
New ==
    /\ init_raised = "no call"
    /\ IF init_asserts_fail(init_args)
       THEN /\ init_raised' = "AssertionError"
            /\ UNCHANGED <<solution, wordle_number>>
       ELSE \E drawn \in game_word_freqs, today \in TodayNumbers :
               LET sol == IF init_args.random_word THEN drawn ELSE init_args.solution
                   n   == IF init_args.wordle_number = NoNumber
                          THEN today ELSE init_args.wordle_number
               IN IF solution_truth(sol)
                  THEN /\ init_raised' = "returned"
                       /\ solution' = sol
                       /\ UNCHANGED wordle_number
                  ELSE IF n + 1 \in DOMAIN game_solutions
                  THEN /\ init_raised' = "returned"
                       /\ solution' = game_solutions[n + 1]
                       /\ wordle_number' = n
                  ELSE /\ init_raised' = "IndexError"
                       /\ UNCHANGED <<solution, wordle_number>>
    /\ UNCHANGED <<valid_words, max_guesses, guesses, all_hints, won, is_finished,
                   keyboard_colors, raised, init_args>>
    /\ UNCHANGED <<pvars, hvars, bvars>>

\* a faulty variant of the branches: "c in self._solution" tested first
game_mark_member_first(word, sol, i) ==
    IF word[i] \in Range(sol) THEN "Y"
    ELSE IF sol[i] = word[i] THEN "G"
    ELSE "B"

\* the branch taken for the letter at position i of word (one-pass)
game_mark(word, sol, i) ==
    IF sol[i] = word[i] THEN "G"
    ELSE IF word[i] \in Range(sol) THEN "Y"
    ELSE "B"

\* hints = [" "] * wordlen, then one slot filled per letter of the word
game_hints(word, sol) ==
    [i \in 1..wordlen |-> IF i <= Len(word) THEN game_mark(word, sol, i) ELSE " "]

\* the keyboard colour of letter c after a mark h for it
key_color(kb, c, h) ==
    CASE h = "G" -> "green"
      [] h = "Y" -> IF kb[c] # "green" THEN "yellow" ELSE kb[c]
      [] OTHER   -> IF kb[c] \notin {"green", "yellow"} THEN "grey" ELSE kb[c]

\* keyboard_colors after the loop has handled the first n letters of word
RECURSIVE keyboard_after(_, _, _, _)
keyboard_after(kb, word, sol, n) ==
    IF n = 0 THEN kb
    ELSE LET before == keyboard_after(kb, word, sol, n - 1)
             c == word[n]
         IN [before EXCEPT ![c] = key_color(before, c, game_mark(word, sol, n))]

\* the 1-based position at which the loop raises IndexError (the solution or
\* the hints list has no such index), 0 when the loop runs to its end
crash_at(word, sol) ==
    LET m == IF Len(sol) < wordlen THEN Len(sol) ELSE wordlen
    IN IF Len(word) > m THEN m + 1 ELSE 0

\* faulty variants of the assertions: one that lets a finished game go on,
\* one that takes any word
asserts_skip_finished(word) == word \notin valid_words

asserts_skip_valid(word) == is_finished

\* the two assertions at the head of guess(): TRUE when one of them fails
guess_asserts_fail(word) ==
    \/ word \notin valid_words
    \/ is_finished

\* a faulty variant of the limit test: one guess too many
reaches_max_late(n) == n > max_guesses

\* len(self.guesses) == self.max_guesses
reaches_max(n) == n = max_guesses

\* a faulty variant of the winning test: the first mark alone
all_green_first(hints, word) == hints[1] = "G"

\* hints == ["G"] * len(word)
all_green(hints, word) == hints = Repeat("G", Len(word))

Guess(input) ==
    LET word == lower(strip(input)) IN
    /\ init_raised = "returned"
    /\ IF guess_asserts_fail(word)
       THEN /\ raised' = "AssertionError"
            /\ UNCHANGED <<guesses, all_hints, won, is_finished, keyboard_colors>>
       ELSE LET gs    == Append(guesses, word)
                fin   == IF reaches_max(Len(gs)) THEN TRUE ELSE is_finished
                stop  == crash_at(word, solution)
                n     == IF stop = 0 THEN Len(word) ELSE stop - 1
                hints == game_hints(word, solution)
            IN /\ guesses' = gs
               /\ keyboard_colors' = keyboard_after(keyboard_colors, word, solution, n)
               /\ IF stop # 0
                  THEN /\ raised' = "IndexError"
                       /\ is_finished' = fin
                       /\ UNCHANGED <<all_hints, won>>
                  ELSE /\ raised' = "returned"
                       /\ all_hints' = Append(all_hints, hints)
                       /\ IF all_green(hints, word)
                          THEN won' = TRUE /\ is_finished' = TRUE
                          ELSE won' = won /\ is_finished' = fin
    /\ UNCHANGED <<solution, valid_words, max_guesses, init_args, wordle_number,
                   init_raised>>
    /\ UNCHANGED <<pvars, hvars, bvars>>

(***************************************************************************)
(* WordlePlayer (src/src/libwordle/player.py).                             *)
(* The solver is constructed with wordlen = p_wordlen; positions are       *)
(* 1-based here and 0-based in the code.                                   *)
(***************************************************************************)
p_wordlen == 3
MaxResults == 2

black  == 1
yellow == 2
green  == 3

aab == <<"a","a","b">>
abc == <<"a","b","c">>
bca == <<"b","c","a">>
cab == <<"c","a","b">>
cca == <<"c","c","a">>
aad == <<"a","a","d">>
aae == <<"a","a","e">>
aaf == <<"a","a","f">>
aag == <<"a","a","g">>
aah == <<"a","a","h">>
aai == <<"a","a","i">>
adb == <<"a","d","b">>

\* pads a word of the model to the solver's word length
Pad(w) == w \o [i \in 1..(p_wordlen - Len(w)) |-> "c"]

\* the keys of word_freqs, in the dictionary's order
word_freqs ==
    <<Pad(abc), Pad(bca), Pad(aab), Pad(cab), Pad(aad), Pad(aae), Pad(aaf),
      Pad(aag), Pad(aah), Pad(aai), Pad(adb)>>

\* word_freqs[word]: the count the frequency table gives the word
word_freq(word) ==
    CASE word = Pad(abc) -> 3
      [] word \in {Pad(bca), Pad(aab)} -> 2
      [] word \in {Pad(cab), Pad(aad), Pad(aae), Pad(aaf)} -> 1
      [] OTHER -> 0

\* the words a caller passes to guess() and add_result(): those of the list
\* and one the list does not hold
PlayerWords == {Pad(bca), Pad(aab), Pad(cca)}

\* solutions[wordle_number]
PlayerSolutions == {Pad(bca), Pad(abc)}

HintSymbols == {"G", "Y", "B"}

\* the result strings a caller passes to add_result(): every string over
\* G, Y, B of the word length, and two that hold another symbol
PlayerResults ==
    [1..p_wordlen -> HintSymbols]
    \cup {[i \in 1..p_wordlen |-> IF i = 1 THEN "X" ELSE "B"],
          [i \in 1..p_wordlen |-> IF i = p_wordlen THEN "X" ELSE "Y"]}

\* the constraint state __init__ builds
Tracker0 == [chars |-> [i \in 1..p_wordlen |-> [no |-> {}, yes |-> None]],
             in_word |-> {}]

\* the constraint state the tracker methods work on
Tracker == [chars |-> chars, in_word |-> in_word]

\* a faulty variant of _re_str_for_pos: the excluded set tested before the
\* Green letter
re_pos_matches_no_first(cs, pos, ch) ==
    IF cs[pos].no # {} THEN ch \notin cs[pos].no
    ELSE IF cs[pos].yes # None THEN ch = cs[pos].yes
    ELSE TRUE

\* _re_str_for_pos(pos), matched against the letter ch: the Green letter,
\* else "[^...]" over the excluded letters, else "."
re_pos_matches(cs, pos, ch) ==
    IF cs[pos].yes # None THEN ch = cs[pos].yes
    ELSE IF cs[pos].no # {} THEN ch \notin cs[pos].no
    ELSE TRUE

\* the main regex "^" + one item per position + "$", then one "^.*letter"
\* per letter of in_word
matches_all_regexes(tr, word) ==
    /\ Len(word) = p_wordlen
    /\ \A pos \in 1..p_wordlen : re_pos_matches(tr.chars, pos, word[pos])
    /\ \A letter \in tr.in_word : letter \in Range(word)

filter_words(tr) ==
    SelectSeq(word_freqs, LAMBDA w : matches_all_regexes(tr, w))

\* the fields __init__ sets, the solution apart; its call of _update()
\* leaves the candidates of the empty constraint state in filtered_words
NewPlayer ==
    /\ chars = Tracker0.chars
    /\ in_word = Tracker0.in_word
    /\ color_lines = <<>>
    /\ won_game = FALSE
    /\ num_guesses = 0
    /\ last_word = <<>>
    /\ last_result = <<>>
    /\ p_raised = "no call"
    /\ filtered_words = filter_words(Tracker0)
    /\ p_returned = <<>>
    /\ seen_green = [i \in 1..p_wordlen |-> {}]
    /\ seen_present = {}

InitPlayerState ==
    /\ p_solution \in PlayerSolutions
    /\ NewPlayer

\* a faulty variant of wrong_position: "^=" for "|=" on the excluded set
wrong_position_toggles(tr, letter, position) ==
    LET c == lower_char(letter)
    IN [tr EXCEPT !.chars[position].no = (@ \ {c}) \cup ({c} \ @),
                  !.in_word = @ \cup {c}]

wrong_position(tr, letter, position) ==
    [tr EXCEPT !.chars[position].no = @ \cup {lower_char(letter)},
               !.in_word = @ \cup {lower_char(letter)}]

correct(tr, letter, position) ==
    [tr EXCEPT !.chars[position].yes = lower_char(letter)]

\* a faulty variant of not_in_word: the Black letter also leaves in_word
not_in_word_forgets(tr, letter, position) ==
    [tr EXCEPT !.chars =
        [p \in 1..p_wordlen |-> [@[p] EXCEPT !.no = @ \cup {lower_char(letter)}]],
               !.in_word = @ \ {lower_char(letter)}]

not_in_word(tr, letter, position) ==
    [tr EXCEPT !.chars =
        [p \in 1..p_wordlen |-> [@[p] EXCEPT !.no = @ \cup {lower_char(letter)}]]]

\* a faulty variant of the dispatch: nothing is done for a Black
apply_symbol_skips_black(tr, r, letter, position) ==
    CASE r = "G" -> correct(tr, letter, position)
      [] r = "Y" -> wrong_position(tr, letter, position)
      [] r = "B" -> tr

\* {"G": self.correct, "Y": self.wrong_position, "B": self.not_in_word}[r]
apply_symbol(tr, r, letter, position) ==
    CASE r = "G" -> correct(tr, letter, position)
      [] r = "Y" -> wrong_position(tr, letter, position)
      [] r = "B" -> not_in_word(tr, letter, position)

\* the tracker after the loop of add_result has handled the first n symbols
RECURSIVE apply_result(_, _, _, _)
apply_result(tr, word, result, n) ==
    IF n = 0 THEN tr
    ELSE apply_symbol(apply_result(tr, word, result, n - 1), result[n], word[n], n)

\* the 1-based position at which the loop of add_result raises (KeyError for
\* a symbol outside G, Y, B; IndexError for a position the word or chars does
\* not have), 0 when the loop runs to its end
add_result_stop(word, result) ==
    LET bad == {i \in 1..Len(result) :
                    \/ result[i] \notin HintSymbols
                    \/ i > Len(word)
                    \/ (result[i] \in {"G", "Y"} /\ i > p_wordlen)}
    IN IF bad = {} THEN 0 ELSE CHOOSE i \in bad : \A j \in bad : i <= j

color_of(r) ==
    CASE r = "G" -> green
      [] r = "Y" -> yellow
      [] r = "B" -> black

\* the whole of add_result(word, result) on the solver's state
add_result(word, result) ==
    LET stop == add_result_stop(word, result)
        n    == IF stop = 0 THEN Len(result) ELSE stop - 1
        tr   == apply_result(Tracker, word, result, n)
    IN /\ chars' = tr.chars
       /\ in_word' = tr.in_word
       /\ last_word' = word
       /\ last_result' = result
       /\ seen_green' = [i \in 1..p_wordlen |->
              IF i <= n /\ result[i] = "G"
              THEN seen_green[i] \cup {lower_char(word[i])} ELSE seen_green[i]]
       /\ seen_present' = seen_present \cup
              {lower_char(word[i]) : i \in {j \in 1..n : result[j] \in {"G", "Y"}}}
       /\ UNCHANGED <<filtered_words, p_returned>>
       /\ IF stop # 0
          THEN /\ p_raised' = (IF result[stop] \notin HintSymbols
                               THEN "KeyError" ELSE "IndexError")
               /\ UNCHANGED <<color_lines, won_game>>
          ELSE /\ p_raised' = "returned"
               /\ color_lines' = Append(color_lines,
                                        [i \in 1..Len(result) |-> color_of(result[i])])
               /\ won_game' = (won_game \/ result = Repeat("G", Len(word)))

\* a faulty variant of the test of guess(): "letter in word" for
\* "letter in self._solution"
player_mark_in_word(word, sol, i) ==
    IF sol[i] = word[i] THEN "G"
    ELSE IF word[i] \in Range(word) THEN "Y"
    ELSE "B"

\* the result WordlePlayer.guess builds for word against the solution
player_mark(word, sol, i) ==
    IF sol[i] = word[i] THEN "G"
    ELSE IF word[i] \in Range(sol) THEN "Y"
    ELSE "B"

player_result(word, sol) == [i \in 1..Len(word) |-> player_mark(word, sol, i)]

\* no caller in the repository catches what add_result raises: the run ends
PlayerRunning == p_raised \notin {"KeyError", "IndexError", "ValueError"}

\* a direct call of add_result, as an interactive caller makes it
AddResult(word, result) ==
    /\ PlayerRunning
    /\ Len(color_lines) < MaxResults
    /\ add_result(word, result)
    /\ UNCHANGED <<p_solution, num_guesses>>
    /\ UNCHANGED <<gvars, hvars, bvars>>

\* the hint of real Wordle: Greens first, then, left to right, a Yellow for
\* each other position while the solution has unmatched copies of its letter
two_pass_mark(word, sol, i) ==
    IF word[i] = sol[i] THEN "G"
    ELSE LET c       == word[i]
             spare   == Count(sol, c)
                        - Cardinality({j \in 1..Len(word) : word[j] = c /\ sol[j] = c})
             earlier == Cardinality({j \in 1..(i - 1) : word[j] = c /\ sol[j] # c})
         IN IF earlier < spare THEN "Y" ELSE "B"

two_pass_hint(word, sol) == [i \in 1..Len(word) |-> two_pass_mark(word, sol, i)]

\* a caller who plays the solver's puzzle on a real Wordle passes the hints
\* of that game to add_result
TwoPassFeedback(word) ==
    /\ PlayerRunning
    /\ Len(color_lines) < MaxResults
    /\ Len(word) = Len(p_solution)
    /\ add_result(word, two_pass_hint(word, p_solution))
    /\ UNCHANGED <<p_solution, num_guesses>>
    /\ UNCHANGED <<gvars, hvars, bvars>>

\* guess(word) in self-play: the solver scores the word against its solution
PlayerGuess(word) ==
    /\ PlayerRunning
    /\ Len(color_lines) < MaxResults
    /\ Len(word) <= Len(p_solution)
    /\ add_result(word, player_result(word, p_solution))
    /\ num_guesses' = (IF p_raised' = "returned" THEN num_guesses + 1 ELSE num_guesses)
    /\ UNCHANGED p_solution
    /\ UNCHANGED <<gvars, hvars, bvars>>

(***************************************************************************)
(* The selector of WordlePlayer: _update(), the scores and next_word().    *)
(***************************************************************************)
\* letter_counter[(i, l)]: the words of the candidate list fw that have the
\* letter l at position i
letter_counter(fw, i, l) == Cardinality({k \in 1..Len(fw) : fw[k][i] = l})

\* M = max(letter_scores.values()), for a candidate list that is not empty
max_letter_count(fw) ==
    LET counts == {letter_counter(fw, i, fw[k][i]) :
                       k \in 1..Len(fw), i \in 1..p_wordlen}
    IN CHOOSE m \in counts : \A c \in counts : c <= m

\* sum([letter_counter[x] for x in enumerate(word)]) over the first n letters
RECURSIVE letter_sum(_, _, _)
letter_sum(fw, word, n) ==
    IF n = 0 THEN 0
    ELSE letter_sum(fw, word, n - 1) + letter_counter(fw, n, word[n])

\* _score_one_word(word), times M * wordlen so that it stays an integer:
\* (sum of letter_counter / M) / wordlen * unique_letters + word_freqs[word]
score_one_word(fw, word) ==
    letter_sum(fw, word, p_wordlen) * Cardinality(Range(word))
        + word_freq(word) * max_letter_count(fw) * p_wordlen

\* the words that can stand first in word_scores, the list of (score, word)
\* sorted in descending order: those of the highest score. Between words
\* whose scores are equal as fractions the order is that of the rounded
\* floating-point sums and, where these agree too, of the words; the model
\* admits each of them.
first_words(fw) ==
    {w \in Range(fw) :
        \A v \in Range(fw) : score_one_word(fw, v) <= score_one_word(fw, w)}

\* a faulty variant of the test of next_word: "> 1" for "> 0"
next_word_returns_late(fw) ==
    IF Len(fw) > 1 THEN first_words(fw) ELSE {<<>>}

\* what next_word can return once _update() has run: word_scores[0][1] if
\* len(word_scores) > 0, else None
next_word_returns(fw) ==
    IF Len(fw) > 0 THEN first_words(fw) ELSE {<<>>}

\* next_word(): _update() sets regexes and filtered_words, then
\* _score_letters takes max() of the letter counts, which raises ValueError
\* when there is no candidate
NextWord ==
    /\ PlayerRunning
    /\ LET fw == filter_words(Tracker)
       IN /\ filtered_words' = fw
          /\ IF fw = <<>>
             THEN /\ p_raised' = "ValueError"
                  /\ UNCHANGED p_returned
             ELSE /\ p_raised' = "returned"
                  /\ p_returned' \in next_word_returns(fw)
    /\ UNCHANGED <<p_solution, chars, in_word, color_lines, won_game,
                   num_guesses, last_word, last_result, seen_green, seen_present>>
    /\ UNCHANGED <<gvars, hvars, bvars>>

(***************************************************************************)
(* The batch driver: main() and play_game() of player.py, with play() as   *)
(* the game each worker process runs. main() of bin/auto_play.py has the   *)
(* same shape. A game is the private state of one play_game call; the      *)
(* "time" field of a record is left out.                                   *)
(***************************************************************************)
NumGames == 3
NumWorkers == 2
play_tries == 6

\* solutions: the puzzle list; index k holds the puzzle of wordle_number k - 1
solutions == <<Pad(aag), Pad(bca), Pad(abc), Pad(cab), Pad(aah)>>

\* the value of a handle that is not ready, and of output before play()
\* binds it
NoRecord == [won |-> FALSE, guesses |-> 0, color_grid |-> <<>>, wordle_number |-> -1]

\* the arguments apply_async passes for puzzle k and, once a worker runs
\* them, the WordlePlayer that play_game constructs; tried and hints are the
\* words guess() was given and the results it returned, which the code does
\* not keep
NewGame(k) ==
    [pc |-> "queued", wordle_number |-> k - 1, solution |-> solutions[k],
     tr |-> Tracker0, color_lines |-> <<>>, won_game |-> FALSE,
     trie |-> 0, tried |-> {}, hints |-> <<>>, output |-> NoRecord]

\* a faulty variant of the record: the tries counted from 0
play_output_from_zero(g, trie) ==
    [won |-> g.won_game, guesses |-> trie - 1, color_grid |-> g.color_lines,
     wordle_number |-> g.wordle_number]

\* output, as an iteration of play() builds it
play_output(g, trie) ==
    [won |-> g.won_game, guesses |-> trie, color_grid |-> g.color_lines,
     wordle_number |-> g.wordle_number]

\* the solver g after guess(word): the result of the word against its
\* solution, handed to add_result
game_after_guess(g, word) ==
    LET result == player_result(word, g.solution)
    IN [g EXCEPT
          !.tr = apply_result(@, word, result, Len(result)),
          !.color_lines = Append(@, [i \in 1..Len(result) |-> color_of(result[i])]),
          !.won_game = @ \/ result = Repeat("G", Len(word)),
          !.tried = @ \cup {word},
          !.hints = Append(@, result)]

\* the game g after one iteration of the loop of play() that guesses word:
\* guess(), output, and the end of the loop on a win or after the last trie
game_after_round(g, word) ==
    LET after == game_after_guess(g, word)
        trie  == g.trie + 1
        out   == play_output(after, trie)
    IN [after EXCEPT
           !.trie = trie,
           !.output = out,
           !.pc = IF out.won \/ trie = play_tries THEN "played" ELSE "playing"]

\* a faulty variant of the loop test: one handle short
poll_again_one_short(n) == n < NumGames - 1

\* while finished < num_games
poll_again(n) == n < NumGames

\* r = [p.apply_async(play_game, (i, ...)) for i in range(num_games)]: one
\* call; after the last one main() sets finished = 0 and enters its loop
ApplyAsync ==
    /\ main_pc = "dispatch"
    /\ LET k == Len(async_results) + 1
       IN /\ async_results' = Append(async_results,
                 [ready |-> FALSE, failed |-> FALSE, value |-> NoRecord])
          /\ games' = Append(games, NewGame(k))
          /\ main_pc' = (IF k = NumGames THEN "poll" ELSE "dispatch")
    /\ finished' = 0
    /\ UNCHANGED <<scan_pos, new_finished, results, results_q, results_json>>
    /\ UNCHANGED <<gvars, pvars, hvars>>

\* the test of the loop: another scan of r, or on to the x.get() calls
PollTest ==
    /\ main_pc = "poll"
    /\ IF poll_again(finished)
       THEN main_pc' = "scan" /\ scan_pos' = 1 /\ new_finished' = 0
       ELSE main_pc' = "get" /\ UNCHANGED <<scan_pos, new_finished>>
    /\ UNCHANGED <<async_results, games, finished, results, results_q, results_json>>
    /\ UNCHANGED <<gvars, pvars, hvars>>

\* new_finished = len([1 for x in r if x.ready()]): one x.ready() is read
ScanReady ==
    /\ main_pc = "scan"
    /\ scan_pos <= Len(async_results)
    /\ new_finished' = new_finished + (IF async_results[scan_pos].ready THEN 1 ELSE 0)
    /\ scan_pos' = scan_pos + 1
    /\ UNCHANGED <<main_pc, async_results, games, finished, results, results_q,
                   results_json>>
    /\ UNCHANGED <<gvars, pvars, hvars>>

\* finished = new_finished, at the end of a scan
ScanDone ==
    /\ main_pc = "scan"
    /\ scan_pos > Len(async_results)
    /\ finished' = new_finished
    /\ main_pc' = "poll"
    /\ UNCHANGED <<async_results, games, scan_pos, new_finished, results, results_q,
                   results_json>>
    /\ UNCHANGED <<gvars, pvars, hvars>>

\* results = [x.get() for x in r]: one x.get(), which waits for its handle
\* and raises what its game raised
GetResult ==
    /\ main_pc = "get"
    /\ LET k == Len(results) + 1
       IN /\ async_results[k].ready
          /\ IF async_results[k].failed
             THEN main_pc' = "ValueError" /\ UNCHANGED results
             ELSE /\ results' = Append(results, async_results[k].value)
                  /\ main_pc' = (IF k = Len(async_results) THEN "dump" ELSE "get")
    /\ UNCHANGED <<async_results, games, scan_pos, new_finished, finished, results_q,
                   results_json>>
    /\ UNCHANGED <<gvars, pvars, hvars>>

\* json.dump(results, f)
DumpResults ==
    /\ main_pc = "dump"
    /\ results_json' = results
    /\ main_pc' = "stats"
    /\ UNCHANGED <<async_results, games, scan_pos, new_finished, finished, results,
                   results_q>>
    /\ UNCHANGED <<gvars, pvars, hvars>>

\* save_stats(results, stats_file)
SaveStats ==
    /\ main_pc = "stats"
    /\ main_pc' = "done"
    /\ UNCHANGED <<async_results, games, scan_pos, new_finished, finished, results,
                   results_q, results_json>>
    /\ UNCHANGED <<gvars, pvars, hvars>>

\* a worker of the pool takes the oldest task that waits and constructs its
\* WordlePlayer
StartGame(k) ==
    /\ k \in 1..Len(games)
    /\ games[k].pc = "queued"
    /\ \A j \in 1..(k - 1) : games[j].pc # "queued"
    /\ Cardinality({j \in 1..Len(games) : games[j].pc \in {"playing", "played"}})
          < NumWorkers
    /\ games' = [games EXCEPT ![k].pc = "playing"]
    /\ UNCHANGED <<main_pc, async_results, scan_pos, new_finished, finished, results,
                   results_q, results_json>>
    /\ UNCHANGED <<gvars, pvars, hvars>>

\* one iteration of "for trie in range(1, 7)" in play(): next_word(),
\* guess(), output; the loop ends on a win and after the last trie. The
\* ValueError of next_word ends the task and is kept in its handle.
PlayRound(k) ==
    /\ k \in 1..Len(games)
    /\ games[k].pc = "playing"
    /\ LET g  == games[k]
           fw == filter_words(g.tr)
       IN IF fw = <<>>
          THEN /\ games' = [games EXCEPT ![k].pc = "ValueError"]
               /\ async_results' = [async_results EXCEPT ![k].ready = TRUE,
                                                         ![k].failed = TRUE]
          ELSE /\ \E word \in next_word_returns(fw) :
                       games' = [games EXCEPT ![k] = game_after_round(g, word)]
               /\ UNCHANGED async_results
    /\ UNCHANGED <<main_pc, scan_pos, new_finished, finished, results, results_q,
                   results_json>>
    /\ UNCHANGED <<gvars, pvars, hvars>>

\* play_game puts the record on the queue and returns it: the handle of the
\* task becomes ready
ReturnGame(k) ==
    /\ k \in 1..Len(games)
    /\ games[k].pc = "played"
    /\ games' = [games EXCEPT ![k].pc = "returned"]
    /\ results_q' = Append(results_q, games[k].output)
    /\ async_results' = [async_results EXCEPT ![k] =
                            [ready |-> TRUE, failed |-> FALSE,
                             value |-> games[k].output]]
    /\ UNCHANGED <<main_pc, scan_pos, new_finished, finished, results, results_json>>
    /\ UNCHANGED <<gvars, pvars, hvars>>

(***************************************************************************)
(* The hint functions on their own: one (guess, solution) pair of equal    *)
(* length, scored by the game and by the solver.                           *)
(***************************************************************************)
speed == <<"s","p","e","e","d">>
allow == <<"a","l","l","o","w">>
loyal == <<"l","o","y","a","l">>

HintLetters == {"a", "b", "c"}

HintWords ==
    [1..wordlen -> HintLetters] \cup {speed, abide, allow, loyal, trace, crane}

InitHintState ==
    /\ h_word \in HintWords
    /\ h_solution \in HintWords
    /\ h_game = <<>>
    /\ h_player = <<>>
    /\ h_top = <<>>

\* a faulty variant of the test of guess(): no "p" branch
top_mark_no_present(word, sol, i) ==
    IF sol[i] = word[i] THEN "c" ELSE "n"

\* the result WordlePlayer.guess of src/wordle_player.py builds, in its
\* symbols c, p, n
top_mark(word, sol, i) ==
    IF sol[i] = word[i] THEN "c"
    ELSE IF word[i] \in Range(sol) THEN "p"
    ELSE "n"

top_result(word, sol) == [i \in 1..Len(word) |-> top_mark(word, sol, i)]

\* {"c": self.green, "p": self.yellow, "n": self.black}[r]
top_color_of(r) ==
    CASE r = "c" -> green
      [] r = "p" -> yellow
      [] r = "n" -> black

\* {"c": self.correct, "p": self.wrong_position, "n": self.not_in_word}[r]
top_apply_symbol(tr, r, letter, position) ==
    CASE r = "c" -> correct(tr, letter, position)
      [] r = "p" -> wrong_position(tr, letter, position)
      [] r = "n" -> not_in_word(tr, letter, position)

\* the tracker after the loop of add_result of src/wordle_player.py has
\* handled the first n symbols
RECURSIVE top_apply_result(_, _, _, _)
top_apply_result(tr, word, result, n) ==
    IF n = 0 THEN tr
    ELSE top_apply_symbol(top_apply_result(tr, word, result, n - 1),
                          result[n], word[n], n)

ComputeHints ==
    /\ h_game = <<>>
    /\ h_game' = game_hints(h_word, h_solution)
    /\ h_player' = player_result(h_word, h_solution)
    /\ h_top' = top_result(h_word, h_solution)
    /\ UNCHANGED <<h_word, h_solution>>
    /\ UNCHANGED <<gvars, pvars, bvars>>

(***************************************************************************)
(* Specifications.                                                         *)
(***************************************************************************)
\* the state of the parts a specification does not exercise
IdleGame ==
    /\ solution = trace
    /\ valid_words = GameValidWords
    /\ max_guesses = default_max_guesses
    /\ won = FALSE
    /\ is_finished = FALSE
    /\ guesses = <<>>
    /\ all_hints = <<>>
    /\ keyboard_colors = [c \in ascii_lowercase |-> "white"]
    /\ raised = "no call"
    /\ init_args = [solution |-> trace, wordle_number |-> NoNumber,
                    random_word |-> FALSE]
    /\ wordle_number = NoNumber
    /\ init_raised = "returned"

IdlePlayer ==
    /\ InitPlayerState
    /\ p_solution = Pad(bca)

IdleHint ==
    /\ h_word = trace
    /\ h_solution = trace
    /\ h_game = <<>>
    /\ h_player = <<>>
    /\ h_top = <<>>

IdleBatch ==
    /\ main_pc = "idle"
    /\ async_results = <<>>
    /\ games = <<>>
    /\ scan_pos = 0
    /\ new_finished = 0
    /\ finished = 0
    /\ results = <<>>
    /\ results_q = <<>>
    /\ results_json = <<>>

\* WordleGame under every sequence of guess() calls
InitGame == InitGameState /\ IdlePlayer /\ IdleHint /\ IdleBatch
NextGame == \E input \in GuessInputs : Guess(input)
SpecGame == InitGame /\ [][NextGame]_vars

\* WordleGame from its construction on: the constructor is called with every
\* combination of the three arguments, and the game it returns is played
NewMaxGuesses == 2

InitNew ==
    /\ init_args \in InitArgs
    /\ init_raised = "no call"
    /\ solution = <<>>
    /\ wordle_number = NoNumber
    /\ valid_words = GameValidWords
    /\ max_guesses = NewMaxGuesses
    /\ won = FALSE
    /\ is_finished = FALSE
    /\ guesses = <<>>
    /\ all_hints = <<>>
    /\ keyboard_colors = [c \in ascii_lowercase |-> "white"]
    /\ raised = "no call"
    /\ IdlePlayer /\ IdleHint /\ IdleBatch
NextNew == New \/ NextGame
SpecNew == InitNew /\ [][NextNew]_vars

\* WordlePlayer under every sequence of add_result() and guess() calls
InitPlayer == IdleGame /\ InitPlayerState /\ IdleHint /\ IdleBatch
NextPlayer ==
    \/ \E word \in PlayerWords, result \in PlayerResults : AddResult(word, result)
    \/ \E word \in PlayerWords : PlayerGuess(word)
SpecPlayer == InitPlayer /\ [][NextPlayer]_vars

\* WordlePlayer fed the hints of a real Wordle game on its puzzle
InitAssist ==
    /\ IdleGame /\ IdleHint /\ IdleBatch
    /\ p_solution \in Range(word_freqs)
    /\ NewPlayer
NextAssist == \E word \in PlayerWords \cup Range(word_freqs) : TwoPassFeedback(word)
SpecAssist == InitAssist /\ [][NextAssist]_vars

\* WordlePlayer under every sequence of add_result(), guess() and
\* next_word() calls
NextSolver == NextPlayer \/ NextWord
SpecSolver == InitPlayer /\ [][NextSolver]_vars

\* WordlePlayer in self-play: every result comes from guess(), which scores
\* the word against the solver's solution, a word of its list
InitSelfPlay ==
    /\ IdleGame /\ IdleHint /\ IdleBatch
    /\ p_solution \in Range(word_freqs)
    /\ NewPlayer
NextSelfPlay ==
    \/ \E word \in PlayerWords \cup Range(word_freqs) : PlayerGuess(word)
    \/ NextWord
SpecSelfPlay == InitSelfPlay /\ [][NextSelfPlay]_vars

\* main() with the games of its pool, under every interleaving
InitBatch ==
    /\ IdleGame /\ IdlePlayer /\ IdleHint
    /\ main_pc = "dispatch"
    /\ async_results = <<>>
    /\ games = <<>>
    /\ scan_pos = 0
    /\ new_finished = 0
    /\ finished = 0
    /\ results = <<>>
    /\ results_q = <<>>
    /\ results_json = <<>>
NextBatch ==
    \/ ApplyAsync
    \/ PollTest
    \/ ScanReady
    \/ ScanDone
    \/ GetResult
    \/ DumpResults
    \/ SaveStats
    \/ \E k \in 1..NumGames : StartGame(k)
    \/ \E k \in 1..NumGames : PlayRound(k)
    \/ \E k \in 1..NumGames : ReturnGame(k)
SpecBatch == InitBatch /\ [][NextBatch]_vars

\* one call of play_game, on every puzzle of PlaySolutions: the words of the
\* list and words the list does not hold
PlayLetters == {"a", "b", "c"}

PlaySolutions == Range(word_freqs) \cup [1..p_wordlen -> PlayLetters]

InitPlay ==
    /\ IdleGame /\ IdlePlayer /\ IdleHint
    /\ main_pc = "idle"
    /\ async_results = <<[ready |-> FALSE, failed |-> FALSE, value |-> NoRecord]>>
    /\ \E sol \in PlaySolutions : games = <<[NewGame(1) EXCEPT !.solution = sol]>>
    /\ scan_pos = 0
    /\ new_finished = 0
    /\ finished = 0
    /\ results = <<>>
    /\ results_q = <<>>
    /\ results_json = <<>>
NextPlay == StartGame(1) \/ PlayRound(1) \/ ReturnGame(1)
SpecPlay == InitPlay /\ [][NextPlay]_vars

\* the hint functions on every pair of words
InitHint == IdleGame /\ IdlePlayer /\ InitHintState /\ IdleBatch
NextHint == ComputeHints
SpecHint == InitHint /\ [][NextHint]_vars

Init == InitGame
Next == NextGame
Spec == SpecGame

(***************************************************************************)
(* Properties of the hint functions (SpecHint).                            *)
(***************************************************************************)
\* the number of positions at which hints marks letter c of word Green or Yellow
Marked(hints, word, c) ==
    Cardinality({i \in 1..Len(word) : word[i] = c /\ hints[i] \in {"G", "Y"}})

NeverOvercounts(hints, word, sol) ==
    \A c \in Range(word) : Marked(hints, word, c) <= Count(sol, c)

\* C1: for every guess and solution of equal length, neither the hint of
\* WordleGame.guess nor that of WordlePlayer.guess marks a letter Green or
\* Yellow more often than the letter occurs in the solution.
C1_HintNeverOvercounts ==
    h_game # <<>> =>
        /\ NeverOvercounts(h_game, h_word, h_solution)
        /\ NeverOvercounts(h_player, h_word, h_solution)

\* C26: for every guess and solution the hints of WordleGame.guess, of
\* WordlePlayer.guess and of WordlePlayer.guess of src/wordle_player.py are
\* as long as the guess and give every position the same colour (G and c
\* green, Y and p yellow, B and n black); so the tracker is in the same state
\* after the symbols of any of the three are applied to it.
C26_HintFunctionsAgree ==
    h_game # <<>> =>
        /\ Len(h_game) = Len(h_word)
        /\ Len(h_player) = Len(h_word)
        /\ Len(h_top) = Len(h_word)
        /\ \A i \in 1..Len(h_word) :
              /\ h_game[i] = h_player[i]
              /\ color_of(h_game[i]) = top_color_of(h_top[i])
        /\ apply_result(Tracker0, h_word, h_game, p_wordlen)
              = apply_result(Tracker0, h_word, h_player, p_wordlen)
        /\ apply_result(Tracker0, h_word, h_game, p_wordlen)
              = top_apply_result(Tracker0, h_word, h_top, p_wordlen)

\* a guess with a doubled letter whose hints hold a Green, a Yellow and a Black
C26_Witness ==
    /\ h_game # <<>>
    /\ {"c", "p", "n"} \subseteq Range(h_top)
    /\ HintSymbols \subseteq Range(h_player)
    /\ \E i, j \in 1..Len(h_word) : i # j /\ h_word[i] = h_word[j]

(***************************************************************************)
(* Properties of WordleGame (SpecGame).                                    *)
(***************************************************************************)
GameUnchanged ==
    /\ guesses' = guesses
    /\ all_hints' = all_hints
    /\ won' = won
    /\ is_finished' = is_finished
    /\ keyboard_colors' = keyboard_colors

Rejected == raised' = "AssertionError" /\ GameUnchanged

\* the effect the state machine gives an accepted guess of word
AcceptedEffect(word) ==
    /\ guesses' = Append(guesses, word)
    /\ Len(all_hints') = Len(all_hints) + 1
    /\ SubSeq(all_hints', 1, Len(all_hints)) = all_hints
    /\ LET hints == all_hints'[Len(all_hints')]
       IN IF \A i \in DOMAIN hints : hints[i] = "G"
          THEN won' /\ is_finished'
          ELSE IF Len(guesses') = max_guesses
          THEN is_finished' /\ ~won'
          ELSE ~is_finished' /\ ~won'

\* C2: a guess that passes the preconditions in an unfinished game appends
\* the guess and its hint; the game is then Won if the hint is all Green,
\* else Lost if max_guesses guesses are made, else still in progress.
C2_AcceptedGuessEffect ==
    [][\A input \in GuessInputs :
          LET word == lower(strip(input))
          IN (Guess(input) /\ word \in valid_words /\ ~is_finished)
                 => AcceptedEffect(word)]_vars

\* the same effect, for the calls that return their hints
ReturnedGuessEffect ==
    [][\A input \in GuessInputs :
          (Guess(input) /\ raised' = "returned")
              => AcceptedEffect(lower(strip(input)))]_vars

\* C3: in a finished game every call of guess is rejected and changes
\* nothing, so the game stays finished.
C3_TerminalIsFinal ==
    [][is_finished => Rejected]_vars

C3_Witness ==
    /\ is_finished
    /\ won
    /\ Len(guesses) < max_guesses
    /\ raised = "AssertionError"

\* C4: with max_guesses = 6 and the solution never guessed, the game is in
\* progress while fewer than 6 guesses are recorded, Lost once the 6th is,
\* and no 7th guess is ever recorded.
C4_SixGuessesLose ==
    (max_guesses = default_max_guesses /\ solution \notin Range(guesses)) =>
        /\ Len(guesses) <= default_max_guesses
        /\ Len(guesses) < default_max_guesses => ~is_finished /\ ~won
        /\ Len(guesses) = default_max_guesses => is_finished /\ ~won

C4_Witness ==
    /\ max_guesses = default_max_guesses
    /\ solution \notin Range(guesses)
    /\ Len(guesses) = default_max_guesses
    /\ is_finished /\ ~won
    /\ raised = "AssertionError"

\* C5: a guess of a word outside valid_words fails and changes nothing.
C5_InvalidWordRejected ==
    [][\A input \in GuessInputs :
          (Guess(input) /\ lower(strip(input)) \notin valid_words) => Rejected]_vars

C5_Witness ==
    /\ ~is_finished
    /\ Len(guesses) > 0
    /\ raised = "AssertionError"

\* C6: a guess of a word already guessed in this game is rejected and
\* changes nothing.
C6_RepeatRejected ==
    [][\A input \in GuessInputs :
          (Guess(input) /\ lower(strip(input)) \in Range(guesses)) => Rejected]_vars

\* C7: a guess of a word whose length is not 5 is rejected and changes
\* nothing, whether or not valid_words holds the word.
C7_WrongLengthRejected ==
    [][\A input \in GuessInputs :
          (Guess(input) /\ Len(lower(strip(input))) # wordlen) => Rejected]_vars

\* C17: the hints of any word against itself are all Green; so a guess of
\* the solution in an unfinished game returns GGGGG and the game is won and
\* finished by it, with one guess recorded if it is the first.
C17_SolutionGuessWins ==
    [][\A input \in GuessInputs :
          LET word == lower(strip(input))
          IN (Guess(input) /\ ~is_finished /\ word = solution)
                 => /\ \A w \in HintWords : game_hints(w, w) = Repeat("G", wordlen)
                    /\ raised' = "returned"
                    /\ all_hints' = Append(all_hints, Repeat("G", wordlen))
                    /\ won' /\ is_finished'
                    /\ guesses = <<>> => guesses' = <<solution>>]_vars

\* the solution is the first guess of a game that allows more guesses
C17_Witness ==
    /\ guesses = <<solution>>
    /\ all_hints = <<Repeat("G", wordlen)>>
    /\ won /\ is_finished
    /\ max_guesses > 1
    /\ raised = "returned"

\* C23: in every state of a game the guesses and the hints are equally many,
\* the guesses are at most max_guesses, and the game is finished when
\* max_guesses guesses are recorded.
C23_GuessCountInvariant ==
    /\ Len(guesses) = Len(all_hints)
    /\ Len(guesses) <= max_guesses
    /\ Len(guesses) = max_guesses => is_finished

\* C24: a won game is finished; the game is won exactly when the last guess
\* it took is the solution, which is exactly when the last hint is all
\* Green; no call takes won back, and no call changes the solution.
C24_WonIffSolutionGuessed ==
    /\ [](/\ won => is_finished
          /\ won <=> (guesses # <<>> /\ guesses[Len(guesses)] = solution)
          /\ won <=> (all_hints # <<>>
                         /\ all_hints[Len(all_hints)] = Repeat("G", wordlen)))
    /\ [][(won => won') /\ solution' = solution]_vars

\* the solution was guessed after another word, and a later call was refused
C24_Witness ==
    /\ won
    /\ Len(guesses) >= 2
    /\ guesses[Len(guesses)] = solution
    /\ guesses[1] # solution
    /\ raised = "AssertionError"

(***************************************************************************)
(* Properties of the constructor of WordleGame (SpecNew).                  *)
(***************************************************************************)
\* how many of solution, wordle_number and random_word a call specifies
SpecifiedCount(args) ==
    (IF args.solution # <<>> THEN 1 ELSE 0)
        + (IF args.wordle_number # NoNumber THEN 1 ELSE 0)
        + (IF args.random_word THEN 1 ELSE 0)

\* C21: a call of the constructor that specifies more than one of solution,
\* wordle_number and random_word fails its assertion, whatever the values,
\* wordle_number = 0 included, and constructs no game.
C21_TwoSourcesRejected ==
    [][(New /\ SpecifiedCount(init_args) > 1)
           => init_raised' = "AssertionError"]_vars

(***************************************************************************)
(* Properties of WordlePlayer (SpecPlayer).                                *)
(***************************************************************************)
\* result marks one letter of word Green or Yellow at one position and Black
\* at another
MixedMark(word, result) ==
    \E i, j \in 1..Len(word) :
        /\ word[i] = word[j]
        /\ result[i] \in {"G", "Y"}
        /\ result[j] = "B"

TrackerNext == [chars |-> chars', in_word |-> in_word']

\* C8: when the hint of real Wordle marks one letter of the guess both
\* present and Black, applying it keeps the solution that produced it among
\* the candidates.
C8_MixedMarkKeepsSolution ==
    [][(/\ color_lines' # color_lines
        /\ MixedMark(last_word', last_result')
        /\ p_solution \in Range(filter_words(Tracker)))
           => p_solution \in Range(filter_words(TrackerNext))]_vars

\* C9: the candidates after an application of add_result are among the
\* candidates before it.
C9_CandidatesOnlyShrink ==
    [][Range(filter_words(TrackerNext)) \subseteq Range(filter_words(Tracker))]_vars

\* the tracker after add_result is applied once more with the arguments of
\* its last call
AppliedAgain ==
    LET stop == add_result_stop(last_word, last_result)
        n    == IF stop = 0 THEN Len(last_result) ELSE stop - 1
    IN apply_result(Tracker, last_word, last_result, n)

\* C10: applying a (word, result) pair a second time leaves the required
\* letters, the excluded letters, the known-present letters and the candidate
\* list as the first application left them.
C10_AddResultIdempotent ==
    last_result # <<>> =>
        /\ \A pos \in 1..p_wordlen :
              /\ AppliedAgain.chars[pos].yes = chars[pos].yes
              /\ AppliedAgain.chars[pos].no = chars[pos].no
        /\ AppliedAgain.in_word = in_word
        /\ filter_words(AppliedAgain) = filter_words(Tracker)

\* one pair, holding a Green, a Yellow and a Black, applied twice in a row to
\* a new tracker
C10_Witness ==
    /\ Len(color_lines) = 2
    /\ color_lines[1] = color_lines[2]
    /\ HintSymbols \subseteq Range(last_result)
    /\ Tracker = apply_result(Tracker0, last_word, last_result, Len(last_result))

\* C15: a call of add_result with a result that holds a symbol other than G,
\* Y, B is rejected and leaves the required letters, the excluded sets,
\* in_word, color_lines and won_game as they were, wherever the symbol stands.
C15_BadSymbolChangesNothing ==
    [][\A word \in PlayerWords, result \in PlayerResults :
          (AddResult(word, result) /\ ~(Range(result) \subseteq HintSymbols))
              => /\ p_raised' = "KeyError"
                 /\ UNCHANGED <<chars, in_word, color_lines, won_game>>]_vars

(***************************************************************************)
(* Properties of the candidate filter (SpecAssist).                        *)
(***************************************************************************)
\* (a) the word has the letter of every Green recorded at a position,
\* (b) at a position without a Green its letter is not excluded there,
\* (c) it holds every letter that was marked Yellow or Green
ConsistentWord(w) ==
    /\ \A pos \in 1..p_wordlen : \A l \in seen_green[pos] : w[pos] = l
    /\ \A pos \in 1..p_wordlen :
          seen_green[pos] = {} => w[pos] \notin chars[pos].no
    /\ \A l \in seen_present : l \in Range(w)

C12_ConstraintsOnlyGrow ==
    [][/\ \A pos \in 1..p_wordlen :
            /\ chars[pos].yes # None => chars'[pos].yes # None
            /\ chars[pos].no \subseteq chars'[pos].no
       /\ in_word \subseteq in_word'
       /\ NextWord => (chars' = chars /\ in_word' = in_word)]_vars

\* two results are applied, a position has its Green and in_word a letter,
\* and next_word has run on these constraints
C12_Witness ==
    /\ Len(color_lines) = 2
    /\ \E pos \in 1..p_wordlen : chars[pos].yes # None /\ chars[pos].no # {}
    /\ in_word # {}
    /\ p_returned # <<>>
    /\ filtered_words = filter_words(Tracker)
    /\ Len(filtered_words) < Len(word_freqs)

\* C14: when no word passes the filter, next_word returns None and raises
\* nothing.
C14_NoCandidateReturnsNone ==
    [][(NextWord /\ filter_words(Tracker) = <<>>)
           => (p_raised' = "returned" /\ p_returned' = <<>>)]_vars

\* C16: when exactly one word of the list passes the filter, next_word
\* returns that word.
C16_SingleCandidateReturned ==
    [][(NextWord /\ Len(filter_words(Tracker)) = 1)
           => (p_raised' = "returned" /\ p_returned' = filter_words(Tracker)[1])]_vars

\* results have left one candidate, the game is not won, and next_word has
\* returned the candidate
C16_Witness ==
    /\ color_lines # <<>>
    /\ ~won_game
    /\ filtered_words = filter_words(Tracker)
    /\ Len(filtered_words) = 1
    /\ p_raised = "returned"
    /\ p_returned = filtered_words[1]

\* the hints the candidates of fw give the guess, and how many give hint o
Outcomes(fw, guess) == {player_result(guess, fw[k]) : k \in 1..Len(fw)}

OutcomeCount(fw, guess, o) ==
    Cardinality({k \in 1..Len(fw) : player_result(guess, fw[k]) = o})

RECURSIVE Power(_, _)
Power(n, e) == IF e = 0 THEN 1 ELSE n * Power(n, e - 1)

RECURSIVE PowerProduct(_, _, _)
PowerProduct(fw, guess, os) ==
    IF os = {} THEN 1
    ELSE LET o == CHOOSE x \in os : TRUE
             n == OutcomeCount(fw, guess, o)
         IN Power(n, n) * PowerProduct(fw, guess, os \ {o})

\* over N candidates the entropy of the outcome distribution of a guess is
\* log2(N) - (1/N) * sum of n * log2(n) over the outcome counts n, so one
\* guess has more entropy than another exactly when its product of n^n is
\* the smaller one
HigherEntropy(fw, g, w) ==
    PowerProduct(fw, g, Outcomes(fw, g)) < PowerProduct(fw, w, Outcomes(fw, w))

\* C20: the word next_word returns for a candidate list that is not empty
\* has, among the candidates, an outcome distribution of maximal Shannon
\* entropy.
C20_ReturnsMaxEntropyWord ==
    [][(NextWord /\ p_raised' = "returned")
           => \A g \in Range(filtered_words') :
                 ~HigherEntropy(filtered_words', g, p_returned')]_vars

(***************************************************************************)
(* Properties of the solver in self-play (SpecSelfPlay).                   *)
(***************************************************************************)
\* C13: in self-play on a solution of the word list the solution passes the
\* filter after every sequence of guesses and is in filtered_words whenever
\* _update() has stored it, so next_word always has a candidate and never
\* fails for want of one.
C13_SolutionStaysCandidate ==
    [][/\ p_solution \in Range(filter_words(Tracker))
       /\ p_solution \in Range(filter_words(TrackerNext))
       /\ p_solution \in Range(filtered_words')
       /\ NextWord => /\ p_raised' = "returned"
                      /\ p_returned' \in Range(filtered_words')]_vars

\* two guesses other than the solution are scored and next_word has then
\* picked its word from the candidates that are left
C13_Witness ==
    /\ num_guesses = 2
    /\ ~won_game
    /\ p_solution \notin {last_word}
    /\ filtered_words = filter_words(Tracker)
    /\ Len(filtered_words) < Len(word_freqs)
    /\ p_returned \in Range(filtered_words)

(***************************************************************************)
(* Properties of the batch driver (SpecBatch).                             *)
(***************************************************************************)
\* min(mat[-1]), which drawgame compares with 3 to tell a won grid
last_row_min(mat) ==
    LET row == mat[Len(mat)]
    IN CHOOSE m \in Range(row) : \A c \in Range(row) : m <= c

\* the row a hint gives with Black = 1, Yellow = 2, Green = 3
HintRow(hint) ==
    [i \in 1..Len(hint) |->
        CASE hint[i] = "B" -> 1 [] hint[i] = "Y" -> 2 [] hint[i] = "G" -> 3]

\* rec is a well-formed record of the game g, dispatched as the k-th
RecordOf(rec, g, k) ==
    /\ rec.guesses = Len(rec.color_grid)
    /\ rec.guesses = Len(g.hints)
    /\ \A n \in 1..Len(g.hints) : rec.color_grid[n] = HintRow(g.hints[n])
    /\ rec.wordle_number = k - 1
    /\ rec.won <=> last_row_min(rec.color_grid) = 3

\* C18: in every record of the batch (the values of the ready handles, the
\* entries of results, of results.json and of the queue) 'guesses' is the
\* number of rows of 'color_grid', the rows are the hints of the game in
\* guess order with Black = 1, Yellow = 2, Green = 3, 'wordle_number' is the
\* index the game was dispatched with, and 'won' holds exactly when the last
\* row is all 3.
C18_RecordsAreWellFormed ==
    /\ \A k \in 1..Len(async_results) :
          async_results[k].ready => RecordOf(async_results[k].value, games[k], k)
    /\ \A k \in 1..Len(results) : RecordOf(results[k], games[k], k)
    /\ \A k \in 1..Len(results_json) : RecordOf(results_json[k], games[k], k)
    /\ \A n \in 1..Len(results_q) :
          LET k == results_q[n].wordle_number + 1
          IN RecordOf(results_q[n], games[k], k)

\* the batch is done and results.json holds a game lost after the last trie
\* and a game won after more than one guess
C18_Witness ==
    /\ main_pc = "done"
    /\ \E k \in 1..Len(results_json) :
          ~results_json[k].won /\ results_json[k].guesses = play_tries
    /\ \E k \in 1..Len(results_json) :
          results_json[k].won /\ results_json[k].guesses > 1

\* the records play() can return for the game g when it runs on its own, from
\* g to the end of its loop
RECURSIVE play_alone(_)
play_alone(g) ==
    IF g.pc # "playing" THEN {g.output}
    ELSE UNION {play_alone(game_after_round(g, word)) :
                    word \in next_word_returns(filter_words(g.tr))}

AllReady ==
    /\ Len(async_results) = NumGames
    /\ \A k \in 1..NumGames : async_results[k].ready

\* C19: under every interleaving of the games, main() reads no result and
\* writes no results.json before every dispatched game is ready; the list it
\* collects then holds one record per game in dispatch order, and each record
\* is one the game gives when it is played alone.
C19_CollectsAfterAllReady ==
    /\ (main_pc \in {"get", "dump", "stats", "done"}
            \/ results # <<>> \/ results_json # <<>>) => AllReady
    /\ main_pc \in {"dump", "stats", "done"} =>
          /\ Len(results) = NumGames
          /\ \A k \in 1..NumGames :
                /\ results[k].wordle_number = k - 1
                /\ results[k] = async_results[k].value
                /\ results[k] \in play_alone([NewGame(k) EXCEPT !.pc = "playing"])
    /\ main_pc \in {"stats", "done"} => results_json = results

\* the games returned in another order than they were dispatched in, and
\* main() has collected them and is done
C19_Witness ==
    /\ main_pc = "done"
    /\ Len(results_json) = NumGames
    /\ results_q # results
    /\ finished = NumGames

(***************************************************************************)
(* Properties of play() (SpecPlay).                                        *)
(***************************************************************************)
Candidates(g) == Range(filter_words(g.tr))

\* C22: in self-play every word play() guesses is a candidate that was not
\* guessed before in the game; after the hint of a guess that is not the
\* solution the word is no candidate any more, no guessed word but the
\* solution is, and the candidates are a proper subset of what they were.
C22_GuessedWordsLeaveCandidates ==
    [][\A k \in 1..Len(games) :
          LET g == games[k]
              h == games'[k]
          IN Len(h.hints) = Len(g.hints) + 1 =>
                /\ Cardinality(h.tried) = Cardinality(g.tried) + 1
                /\ LET word == CHOOSE w \in h.tried : w \notin g.tried
                   IN /\ word \in Candidates(g)
                      /\ \A w \in h.tried :
                            w # g.solution => w \notin Candidates(h)
                      /\ word # g.solution =>
                            /\ Candidates(h) \subseteq Candidates(g)
                            /\ Candidates(h) # Candidates(g)]_vars

\* a game that took four guesses, the first three of them not the solution
C22_Witness ==
    /\ games[1].pc = "returned"
    /\ games[1].won_game
    /\ Len(games[1].hints) = 4
    /\ Cardinality(games[1].tried) = 4

\* C25: play() makes at most 6 guesses and none after an all-Green result,
\* and every run of it ends by returning a record whose 'guesses' is the
\* number of guesses it made, the runs in which next_word finds no candidate
\* included.
C25_PlayReturnsItsRecord ==
    \A k \in 1..Len(games) :
        LET g == games[k]
        IN /\ Len(g.hints) <= play_tries
           /\ \A n \in 1..(Len(g.hints) - 1) :
                 g.hints[n] # Repeat("G", p_wordlen)
           /\ g.pc \notin {"queued", "playing"} =>
                 /\ g.pc \in {"played", "returned"}
                 /\ g.output.guesses = Len(g.hints)

====
